---- MODULE Spec2Model ----
(***************************************************************************)
(* Model of esendex/api.py: the EsendexService client (construction,       *)
(* emit_message, get_message_status) and the MessageStatus value.          *)
(*                                                                         *)
(* Text whose characters matter to the code (the sender matched against    *)
(* PHONE_NUMBER_REGEX, the gateway status text that is lower-cased) is a    *)
(* sequence of one-character strings.  Other text is a TLA+ string.        *)
(* A Python value is a record tagged by its type in field "py"; the        *)
(* outcome of a call is a record tagged "return" or "raise".               *)
(***************************************************************************)
EXTENDS Integers, Sequences, FiniteSets, TLC

VARIABLES
    self,   \* <<>> before/without construction, else <<the EsendexService instance>>
    net,    \* the calls made to requests.post / requests.get, oldest first
    last    \* the last call made by the caller: its arguments, the gateway reply, its outcome

vars == <<self, net, last>>

----------------------------------------------------------------------------
(* Bounds of the model *)

MaxRequests == 2     \* network requests followed in one behaviour
MaxRetries == 2      \* largest retries argument tried (smallest is -1)
MaxOver == 1          \* message lengths tried go up to SmsMaxLen + MaxOver
MaxChunks == 6       \* sender strings are built from at most this many chunks

----------------------------------------------------------------------------
(* Python values and outcomes *)

None == [py |-> "NoneType"]
Str(s) == [py |-> "str", s |-> s]
Return(v) == [tag |-> "return", value |-> v]
Raise(type, msg) == [tag |-> "raise", type |-> type, msg |-> msg]

----------------------------------------------------------------------------
(* MessageStatus *)

SUBMITTED == 0
SENT == 1
DELIVERED == 2
FAILED == 3
ACKNOWLEDGED == 4
EXPIRED == 5
UNKNOWN == 6

StatusValues == {SUBMITTED, SENT, DELIVERED, FAILED, ACKNOWLEDGED, EXPIRED, UNKNOWN}

\* MessageStatus.__new__: the outcome of MessageStatus(status, updated_at)
NewMessageStatus(status, updated_at) ==
    IF status \notin StatusValues
    THEN Raise("ValueError", "status")
    ELSE Return([py |-> "MessageStatus", status |-> status, updated_at |-> updated_at])

----------------------------------------------------------------------------
(* Class attributes of EsendexService *)

MSG_VOICE == 0
MSG_SMS == 1
HOST == "https://api.esendex.com"
SEND_MESSAGE_URL == "/v1.0/messagedispatcher"
MSG_STATUS_URL == "/v1.0/messageheaders/"
SmsMaxLen == 140
PhoneGroups == 5

Digits == {"0", "1", "2", "3", "4", "5", "6", "7", "8", "9"}

Upper == <<"A","B","C","D","E","F","G","H","I","J","K","L","M",
           "N","O","P","Q","R","S","T","U","V","W","X","Y","Z">>
LowerAlpha == <<"a","b","c","d","e","f","g","h","i","j","k","l","m",
                "n","o","p","q","r","s","t","u","v","w","x","y","z">>

\* str.lower() on one character, then on a text
LowerChar(c) ==
    IF \E i \in DOMAIN Upper : Upper[i] = c
    THEN LowerAlpha[CHOOSE i \in DOMAIN Upper : Upper[i] = c]
    ELSE c

Lower(s) == [i \in DOMAIN s |-> LowerChar(s[i])]

\* _inv_dict, as the set of its (key, value) items
_inv_dict == {
    << <<"s","u","b","m","i","t","t","e","d">>, SUBMITTED >>,
    << <<"s","e","n","t">>, SENT >>,
    << <<"d","e","l","i","v","e","r","e","d">>, DELIVERED >>,
    << <<"f","a","i","l","e","d">>, FAILED >>,
    << <<"f","a","i","l","e","d"," ","a","u","t","h","o","r","i","s","a","t","i","o","n">>, FAILED >>,
    << <<"a","c","k","n","o","w","l","e","d","g","e","d">>, ACKNOWLEDGED >>,
    << <<"e","x","p","i","r","e","d">>, EXPIRED >> }

\* dict.get(key, default)
DictGet(d, key, default) ==
    IF \E item \in d : item[1] = key
    THEN (CHOOSE item \in d : item[1] = key)[2]
    ELSE default

----------------------------------------------------------------------------
(* EsendexService.__init__ *)

\* all([account, login, password, sender]): every mandatory argument is truthy
AllMandatory(account, login, password, sender) ==
    account # "" /\ login # "" /\ password # "" /\ sender # <<>>

\* "$" of a Python regex (no MULTILINE): the end of the text, or just before a
\* newline that ends the text
AtDollar(s, i) ==
    \/ i = Len(s) + 1
    \/ i = Len(s) /\ s[i] = "\n"

\* whether "([0-9]{2} *){n}$" can match s from position i (with backtracking
\* over the number of spaces each group takes)
RECURSIVE MatchGroups(_, _, _)
MatchGroups(s, i, n) ==
    IF n = 0
    THEN AtDollar(s, i)
    ELSE /\ i + 1 <= Len(s)
         /\ s[i] \in Digits
         /\ s[i + 1] \in Digits
         /\ \E j \in (i + 2)..(Len(s) + 1) :
                /\ \A k \in (i + 2)..(j - 1) : s[k] = " "
                /\ MatchGroups(s, j, n - 1)

\* the regex without its "$": any text that starts with the groups matches
RECURSIVE MatchGroupsPrefix(_, _, _)
MatchGroupsPrefix(s, i, n) ==
    IF n = 0
    THEN TRUE
    ELSE /\ i + 1 <= Len(s)
         /\ s[i] \in Digits
         /\ s[i + 1] \in Digits
         /\ \E j \in (i + 2)..(Len(s) + 1) :
                /\ \A k \in (i + 2)..(j - 1) : s[k] = " "
                /\ MatchGroupsPrefix(s, j, n - 1)

PhoneMatch_unanchored(sender) == MatchGroupsPrefix(sender, 1, PhoneGroups)

\* re.match(PHONE_NUMBER_REGEX, sender)
PhoneMatch(sender) == MatchGroups(sender, 1, PhoneGroups)

\* time_zone or 'Europe/Paris'   ("" stands for an absent or empty time_zone)
DefaultTimeZone(time_zone) == IF time_zone # "" THEN time_zone ELSE "Europe/Paris"

\* max(1, retries)
ClampRetries(retries) == IF retries > 1 THEN retries ELSE 1

\* the instance's HOST: debug_host when given ("" stands for none), else the class's
HostOf(debug_host) == IF debug_host # "" THEN debug_host ELSE HOST

\* the outcome of EsendexService(account, login, password, sender, ...)
InitOutcome(account, login, password, sender, time_zone, retries, simulate, debug_host) ==
    IF ~AllMandatory(account, login, password, sender)
    THEN Raise("ValueError", "missing or empty mandatory parameter")
    ELSE IF ~PhoneMatch(sender)
    THEN Raise("ValueError", "invalid sender phone number")
    ELSE Return([py |-> "EsendexService",
                 _account |-> account,
                 _login |-> login,
                 _password |-> password,
                 _sender |-> sender,
                 _tz |-> DefaultTimeZone(time_zone),
                 _retries |-> ClampRetries(retries),
                 _simulate |-> simulate,
                 HOST |-> HostOf(debug_host)])

\* the caller constructs the client
Construct(account, login, password, sender, time_zone, retries, simulate, debug_host) ==
    /\ last.op = "none"
    /\ LET out == InitOutcome(account, login, password, sender,
                              time_zone, retries, simulate, debug_host)
       IN /\ last' = [op |-> "init",
                      account |-> account, login |-> login, password |-> password,
                      sender |-> sender, time_zone |-> time_zone, retries |-> retries,
                      simulate |-> simulate, debug_host |-> debug_host,
                      result |-> out]
          /\ self' = IF out.tag = "return" THEN <<out.value>> ELSE <<>>
    /\ UNCHANGED net

----------------------------------------------------------------------------
(* Constructor arguments tried *)

Texts == {"", "x"}
TimeZones == {"", "Asia/Tokyo"}
DebugHosts == {"", "http://localhost:8080"}
RetriesTried == (-1)..MaxRetries

GoodSender == <<"0","6"," ","1","2"," ","3","4"," ","5","6"," ","7","8">>
Senders == {GoodSender, <<"0","6","1","2">>}

\* pieces a sender text is assembled from
Chunks == { <<"0","6">>, <<"1","9"," ">>, <<"7">>, <<" ">>, <<"\n">>, <<"a">> }

RECURSIVE Flatten(_)
Flatten(cs) == IF cs = <<>> THEN <<>> ELSE Head(cs) \o Flatten(Tail(cs))

SenderTexts == { Flatten(cs) : cs \in UNION { [1..n -> Chunks] : n \in 0..MaxChunks } }

\* what callers pass to emit_message and get_message_status
MsgLens == {0} \cup (SmsMaxLen - 1)..(SmsMaxLen + MaxOver)
Messages == [type : {"str", "unicode"}, len : MsgLens]
MessageTypes == {MSG_VOICE, MSG_SMS, 2, -1}
Recipients == {"0698765432"}
MessageIds == {"42", "nope"}

\* what the gateway may answer
OkCodes == {200}
ErrorCodes == {401, 404, 500}
ConnError == [kind |-> "conn_error"]
Http(code, body) == [kind |-> "http", status_code |-> code, content |-> body]

SendBodies == { [doc |-> "messageheaders", id |-> Str("ABC123")],
                [doc |-> "messageheaders", id |-> None],
                [doc |-> "noheader"],
                [doc |-> "notxml"] }
SendReplies ==
    {ConnError} \cup { Http(c, b) : c \in OkCodes, b \in SendBodies }
                \cup { Http(c, [doc |-> "error"]) : c \in ErrorCodes }

StatusTexts == {
    <<"s","u","b","m","i","t","t","e","d">>,
    <<"S","u","b","m","i","t","t","e","d">>,
    <<"S","E","N","T">>,
    <<"D","e","l","i","v","e","r","e","d">>,
    <<"f","a","i","l","e","d">>,
    <<"F","a","i","l","e","d"," ","A","u","t","h","o","r","i","s","a","t","i","o","n">>,
    <<"A","C","K","N","O","W","L","E","D","G","E","D">>,
    <<"e","x","p","i","r","e","D">>,
    <<"f","o","o">>,
    <<"Q","u","e","u","e","d">>,
    <<"f","a","i","l","e","d"," ">>,
    <<"F","a","i","l","e","d","A","u","t","h","o","r","i","s","a","t","i","o","n">>,
    <<>> }
GatewayTime == [valid |-> TRUE, tzinfo |-> "UTC"]
StatusBodies ==
    { [doc |-> "messageheader", status |-> s, laststatusat |-> GatewayTime] : s \in StatusTexts }
    \cup { [doc |-> "messageheader", status |-> <<"s","e","n","t">>, laststatusat |-> [valid |-> FALSE]],
           [doc |-> "nostatus"],
           [doc |-> "notxml"] }
StatusReplies ==
    {ConnError} \cup { Http(c, b) : c \in OkCodes, b \in StatusBodies }
                \cup { Http(c, [doc |-> "error"]) : c \in ErrorCodes }
NoReply == [kind |-> "none"]

----------------------------------------------------------------------------
(* EsendexService.emit_message *)

ValidType_any(message_type) == TRUE

\* message_type not in (MSG_SMS, MSG_VOICE), negated
ValidType(message_type) == message_type \in {MSG_SMS, MSG_VOICE}

TooLong_from_140(message_type, message) ==
    message_type = MSG_SMS /\ message.len >= SmsMaxLen

\* message_type == MSG_SMS and len(message) > 140
TooLong(message_type, message) ==
    message_type = MSG_SMS /\ message.len > SmsMaxLen

\* unicode(message, 'utf-8'), or the message itself when it was Unicode text already
Decode(message) ==
    IF message.type = "str" THEN [type |-> "unicode", len |-> message.len] ELSE message

\* SEND_MESSAGE_REQUEST % {...}
RenderRequest(obj, recipient, message, message_type) ==
    [account |-> obj._account,
     from |-> obj._sender,
     to |-> recipient,
     msg_type |-> IF message_type = MSG_VOICE THEN "Voice" ELSE "SMS",
     body |-> Decode(message),
     lang |-> "fr-FR",
     retries |-> obj._retries]

\* response.raise_for_status() raises HTTPError
HttpError(status_code) == 400 <= status_code /\ status_code < 600

\* what emit_message does with the gateway's reply to its POST
SendReplyOutcome_swallow(reply) ==
    IF reply.kind = "conn_error" THEN Raise("ConnectionError", "post")
    ELSE IF HttpError(reply.status_code) THEN Return(None)
    ELSE IF reply.content.doc = "notxml" THEN Raise("ParseError", "fromstring")
    ELSE IF reply.content.doc = "noheader" THEN Raise("AttributeError", "get")
    ELSE Return(reply.content.id)

SendReplyOutcome(reply) ==
    IF reply.kind = "conn_error" THEN Raise("ConnectionError", "post")
    ELSE IF HttpError(reply.status_code)
    THEN [tag |-> "raise", type |-> "EsendexAPIError",
          cause |-> [type |-> "HTTPError", status_code |-> reply.status_code]]
    ELSE IF reply.content.doc = "notxml" THEN Raise("ParseError", "fromstring")
    ELSE IF reply.content.doc = "noheader" THEN Raise("AttributeError", "get")
    ELSE Return(reply.content.id)

\* requests.post(url, data=..., headers=..., auth=...), as the transport sees it
PostCall(obj) == [method |-> "POST", host |-> obj.HOST, path |-> SEND_MESSAGE_URL]

\* the requests emit_message issues once its arguments are accepted
SendRequests_retrying(obj) ==
    IF obj._simulate THEN <<>> ELSE [i \in 1..obj._retries |-> PostCall(obj)]

SendRequests(obj) == IF obj._simulate THEN <<>> ELSE <<PostCall(obj)>>

SimulatedId_fresh(message) == Str("43")

\* the identifier returned in simulate mode
SimulatedId(message) == Str("42")

EmitMessage(recipient, message, message_type) ==
    /\ self # <<>>
    /\ LET obj == self[1]
           call == [op |-> "send", recipient |-> recipient, message |-> message,
                    message_type |-> message_type]
           done(reply, result) == call @@ [reply |-> reply, result |-> result]
       IN IF ~ValidType(message_type)
          THEN /\ last' = done(NoReply, Raise("ValueError", "invalid message type"))
               /\ UNCHANGED net
          ELSE IF TooLong(message_type, message)
          THEN /\ last' = done(NoReply, Raise("ValueError",
                                   "SMS message cannot be more than 140 chars long"))
               /\ UNCHANGED net
          ELSE LET request == RenderRequest(obj, recipient, message, message_type)
                   issued == SendRequests(obj)
                   sent(reply, result) == done(reply, result) @@ [request |-> request]
               IN /\ Len(net) + Len(issued) <= MaxRequests
                  /\ net' = net \o issued
                  /\ IF obj._simulate
                     THEN last' = sent(NoReply, Return(SimulatedId(message)))
                     ELSE \E reply \in SendReplies :
                              last' = sent(reply, SendReplyOutcome(reply))
    /\ UNCHANGED self

----------------------------------------------------------------------------
(* EsendexService.get_message_status *)

\* response.ok
ResponseOk(status_code) == ~HttpError(status_code)

NotFound_any_error(status_code) == TRUE

NotFound_never(status_code) == FALSE

\* response.status_code == 404, reached when the response is not ok
NotFound(status_code) == status_code = 404

LookupStatus_exact(status_str) == DictGet(_inv_dict, status_str, UNKNOWN)

\* _inv_dict.get(status_str.lower(), MessageStatus.UNKNOWN)
LookupStatus(status_str) == DictGet(_inv_dict, Lower(status_str), UNKNOWN)

\* what get_message_status does with the gateway's reply to its GET
StatusReplyOutcome(message_id, reply) ==
    IF reply.kind = "conn_error" THEN Raise("ConnectionError", "get")
    ELSE IF ResponseOk(reply.status_code)
    THEN IF reply.content.doc = "notxml" THEN Raise("ParseError", "fromstring")
         ELSE IF reply.content.doc = "nostatus" THEN Raise("AttributeError", "lower")
         ELSE IF ~reply.content.laststatusat.valid THEN Raise("ParserError", "arrow.get")
         ELSE NewMessageStatus(LookupStatus(reply.content.status),
                               [tzinfo |-> reply.content.laststatusat.tzinfo,
                                clock |-> "gateway"])
    ELSE IF NotFound(reply.status_code)
    THEN [tag |-> "raise", type |-> "ValueError", msg |-> "message not found",
          message_id |-> message_id]
    ELSE Return(None)

SimulatedStatus_utcnow(obj) ==
    NewMessageStatus(DELIVERED, [tzinfo |-> "UTC", clock |-> "now"])

\* MessageStatus(MessageStatus.DELIVERED, arrow.now(tz=self._tz))
SimulatedStatus(obj) ==
    NewMessageStatus(DELIVERED, [tzinfo |-> obj._tz, clock |-> "now"])

\* requests.get(url, auth=...), as the transport sees it
GetCall(obj, message_id) ==
    [method |-> "GET", host |-> obj.HOST, path |-> MSG_STATUS_URL, id |-> message_id]

GetMessageStatus(message_id) ==
    /\ self # <<>>
    /\ LET obj == self[1]
           call == [op |-> "status", message_id |-> message_id]
           done(reply, result) == call @@ [reply |-> reply, result |-> result]
       IN IF ~obj._simulate
          THEN /\ Len(net) < MaxRequests
               /\ net' = Append(net, GetCall(obj, message_id))
               /\ \E reply \in StatusReplies :
                      last' = done(reply, StatusReplyOutcome(message_id, reply))
          ELSE /\ last' = done(NoReply, SimulatedStatus(obj))
               /\ UNCHANGED net
    /\ UNCHANGED self

----------------------------------------------------------------------------
(* The caller *)

Init ==
    /\ self = <<>>
    /\ net = <<>>
    /\ last = [op |-> "none"]

New ==
    /\ last.op = "none"
    /\ \E account \in Texts, login \in Texts, password \in Texts, sender \in Senders,
       time_zone \in TimeZones, retries \in RetriesTried, simulate \in BOOLEAN,
       debug_host \in DebugHosts :
        Construct(account, login, password, sender, time_zone, retries, simulate, debug_host)

\* construction alone, over many sender texts
NewSender ==
    /\ last.op = "none"
    /\ \E mandatory \in { <<"x", "x", "x">>, <<"", "x", "x">>, <<"x", "", "x">>, <<"x", "x", "">> },
          sender \in SenderTexts :
        Construct(mandatory[1], mandatory[2], mandatory[3], sender, "", 1, FALSE, "")

NextCtor == NewSender
SpecCtor == Init /\ [][NextCtor]_vars

Send ==
    \E recipient \in Recipients, message \in Messages, message_type \in MessageTypes :
        EmitMessage(recipient, message, message_type)

GetStatus == \E message_id \in MessageIds : GetMessageStatus(message_id)

Next == New \/ Send \/ GetStatus
Spec == Init /\ [][Next]_vars

----------------------------------------------------------------------------
(* Vocabulary of the properties *)

Live == self # <<>> /\ ~self[1]._simulate
Simulating == self # <<>> /\ self[1]._simulate

IsSend == last.op = "send"
IsStatus == last.op = "status"
Answered == last.reply.kind = "http"
Failed(type) == last.result.tag = "raise" /\ last.result.type = type
Returned == last.result.tag = "return"
ReturnedStatus == Returned /\ last.result.value.py = "MessageStatus"
ReturnedNone == Returned /\ last.result.value = None

\* the arguments of a send call pass validation
ValidSend(call) ==
    /\ call.message_type \in {MSG_VOICE, MSG_SMS}
    /\ call.message_type = MSG_SMS => call.message.len <= 140

\* the number of digits of s before position k
DigitsBefore(s, k) == Cardinality({ i \in 1..(k - 1) : s[i] \in Digits })

\* s is ten digits and spaces, the spaces standing only after complete two-digit groups
GroupedDigits(s) ==
    /\ \A k \in DOMAIN s : s[k] \in Digits \cup {" "}
    /\ DigitsBefore(s, Len(s) + 1) = 10
    /\ \A k \in DOMAIN s :
           s[k] = " " => DigitsBefore(s, k) > 0 /\ DigitsBefore(s, k) % 2 = 0

\* five two-digit groups, optionally separated by spaces
FiveGroupsSeparated(s) == GroupedDigits(s) /\ s[Len(s)] \in Digits

\* five two-digit groups, each optionally followed by spaces, then at most one newline
FiveGroupsFollowed(s) ==
    LET core == IF s # <<>> /\ s[Len(s)] = "\n" THEN SubSeq(s, 1, Len(s) - 1) ELSE s
    IN GroupedDigits(core)

MandatoryGiven ==
    last.account # "" /\ last.login # "" /\ last.password # "" /\ last.sender # <<>>

\* a and b are equal up to the case of their letters
SameIgnoringCase(a, b) ==
    /\ Len(a) = Len(b)
    /\ \A i \in DOMAIN a :
           \/ a[i] = b[i]
           \/ \E j \in DOMAIN Upper : {a[i], b[i]} = {Upper[j], LowerAlpha[j]}

\* the documented mapping from gateway status text to status
DocumentedTable == {
    << <<"s","u","b","m","i","t","t","e","d">>, "SUBMITTED" >>,
    << <<"s","e","n","t">>, "SENT" >>,
    << <<"d","e","l","i","v","e","r","e","d">>, "DELIVERED" >>,
    << <<"f","a","i","l","e","d">>, "FAILED" >>,
    << <<"f","a","i","l","e","d"," ","a","u","t","h","o","r","i","s","a","t","i","o","n">>, "FAILED" >>,
    << <<"a","c","k","n","o","w","l","e","d","g","e","d">>, "ACKNOWLEDGED" >>,
    << <<"e","x","p","i","r","e","d">>, "EXPIRED" >> }

\* MessageStatus._names
StatusNames == <<"SUBMITTED", "SENT", "DELIVERED", "FAILED", "ACKNOWLEDGED", "EXPIRED", "UNKNOWN">>

DocumentedName(text) ==
    IF \E row \in DocumentedTable : SameIgnoringCase(row[1], text)
    THEN (CHOOSE row \in DocumentedTable : SameIgnoringCase(row[1], text))[2]
    ELSE "UNKNOWN"

----------------------------------------------------------------------------
(* Properties *)

\* C1 (as claimed): in live mode, get_status on an unsuccessful response other
\* than 404 ends in an error reported to the caller, and every get_status call
\* either returns a MessageStatus or reports a failure.
C1_FailsLoud ==
    (IsStatus /\ Live) =>
        /\ (Answered /\ last.reply.status_code >= 400 /\ last.reply.status_code # 404)
               => last.result.tag = "raise"
        /\ last.result.tag = "raise" \/ ReturnedStatus

\* C1 (amended): in live mode, get_status on an unsuccessful response other than
\* 404 raises nothing and returns None; every get_status call returns a
\* MessageStatus, returns None or raises, and None is returned in that case only.
C1_ReturnsNone ==
    (IsStatus /\ Live) =>
        /\ (Answered /\ last.reply.status_code >= 400 /\ last.reply.status_code # 404)
               <=> ReturnedNone
        /\ last.result.tag = "raise" \/ ReturnedStatus \/ ReturnedNone

C1_Witness ==
    IsStatus /\ Live /\ Answered /\ last.reply.status_code = 500 /\ ReturnedNone

\* C2 (as claimed): construction succeeds iff account, login, password and sender
\* are non-empty and sender is five two-digit groups optionally separated by
\* spaces; otherwise it fails with ValueError and there is no client.
C2_SeparatedGroups ==
    last.op = "init" =>
        /\ Returned <=> (MandatoryGiven /\ FiveGroupsSeparated(last.sender))
        /\ Returned \/ (Failed("ValueError") /\ self = <<>>)

\* C2 (amended): construction succeeds iff account, login, password and sender are
\* non-empty and sender is five two-digit groups, each optionally followed by
\* spaces, optionally ended by one newline; otherwise it fails with ValueError
\* and there is no client.
C2_FollowedGroups ==
    last.op = "init" =>
        /\ Returned <=> (MandatoryGiven /\ FiveGroupsFollowed(last.sender))
        /\ Returned => self = <<last.result.value>>
        /\ Returned \/ (Failed("ValueError") /\ self = <<>>)

C2_Witness ==
    /\ last.op = "init" /\ Returned
    /\ last.sender[Len(last.sender)] = "\n"
    /\ \E k \in DOMAIN last.sender : last.sender[k] = " "

\* C3: a send whose kind is neither VOICE nor SMS fails with ValueError and
\* issues no network request, in live mode as in simulate mode.
C3_BadKindBeforeNetwork ==
    [][(last'.op = "send" /\ last'.message_type \notin {MSG_VOICE, MSG_SMS})
          => /\ last'.result.tag = "raise"
             /\ last'.result.type = "ValueError"
             /\ net' = net]_vars

C3_Witness ==
    IsSend /\ Live /\ last.message_type = 2 /\ Failed("ValueError") /\ Len(net) = 1

\* C4: for an SMS, a message longer than 140 fails with ValueError, one of 140 or
\* less is not refused and, on a successful gateway response (or in simulate
\* mode), the call returns; a VOICE message is never refused for its length.
C4_SmsLimit ==
    IsSend =>
        /\ (last.message_type = MSG_SMS /\ last.message.len >= 141)
               => Failed("ValueError")
        /\ (last.message_type = MSG_SMS /\ last.message.len <= 140)
               => /\ ~Failed("ValueError")
                  /\ Simulating => Returned
                  /\ (Live /\ Answered /\ last.reply.content.doc = "messageheaders")
                         => (Returned /\ last.result.value = last.reply.content.id)
        /\ last.message_type = MSG_VOICE => ~Failed("ValueError")

C4_Witness ==
    /\ IsSend /\ Live /\ last.message_type = MSG_SMS /\ last.message.len = 140
    /\ Returned /\ last.result.value = Str("ABC123")

\* C5: in live mode, a send whose arguments pass validation issues exactly one
\* request, a POST, whatever the retry count and the gateway's answer; the retry
\* count only goes into the request body.
C5_OnePost ==
    [][(last'.op = "send" /\ Live /\ ValidSend(last'))
          => /\ Len(net') = Len(net) + 1
             /\ net'[Len(net')].method = "POST"
             /\ last'.request.retries = self[1]._retries]_vars

C5_Witness ==
    /\ IsSend /\ Live /\ ValidSend(last) /\ self[1]._retries >= 2
    /\ Answered /\ last.reply.status_code = 500 /\ Len(net) = 2

\* C6: in simulate mode, every send with kind VOICE or SMS and an SMS body of at
\* most 140 returns "42", and no network request is ever made.
C6_SimulatedSend ==
    Simulating =>
        /\ net = <<>>
        /\ (IsSend /\ ValidSend(last)) => last.result = Return(Str("42"))

C6_Witness ==
    /\ Simulating /\ IsSend /\ last.message_type = MSG_SMS /\ last.message.len = 140
    /\ last.result = Return(Str("42"))

\* C7: in simulate mode, get_status returns a MessageStatus DELIVERED for every
\* message id, its timestamp in the configured time zone, with no network request.
C7_SimulatedStatus ==
    (Simulating /\ IsStatus) =>
        /\ ReturnedStatus
        /\ StatusNames[last.result.value.status + 1] = "DELIVERED"
        /\ last.result.value.updated_at.tzinfo = self[1]._tz
        /\ net = <<>>

C7_Witness ==
    /\ Simulating /\ IsStatus /\ last.message_id = "nope"
    /\ self[1]._tz = "Asia/Tokyo" /\ ReturnedStatus

\* C8: in live mode, on an HTTP error status send fails with EsendexAPIError
\* wrapping the HTTP error; an id is returned only on a successful response.
C8_GatewayError ==
    (IsSend /\ Live) =>
        /\ (Answered /\ last.reply.status_code >= 400)
               => /\ Failed("EsendexAPIError")
                  /\ last.result.cause.type = "HTTPError"
                  /\ last.result.cause.status_code = last.reply.status_code
        /\ Returned => (Answered /\ last.reply.status_code < 400)

C8_Witness ==
    IsSend /\ Live /\ Answered /\ last.reply.status_code = 401 /\ Failed("EsendexAPIError")

\* C9 (as claimed): in live mode, get_status on a 404 fails with an error of a
\* kind distinct from the gateway-failure kind (EsendexAPIError) and from the
\* invalid-argument kind (ValueError), and returns no MessageStatus.
C9_DistinctNotFound ==
    (IsStatus /\ Live /\ Answered /\ last.reply.status_code = 404) =>
        /\ last.result.tag = "raise"
        /\ last.result.type \notin {"EsendexAPIError", "ValueError"}

\* C9 (amended): in live mode, get_status on a 404 fails with a ValueError "message
\* not found" naming the queried id -- the type also raised for invalid
\* arguments, distinct from EsendexAPIError -- and returns no MessageStatus.
C9_NotFoundValueError ==
    (IsStatus /\ Live /\ Answered /\ last.reply.status_code = 404) =>
        /\ Failed("ValueError")
        /\ last.result.msg = "message not found"
        /\ last.result.message_id = last.message_id

C9_Witness ==
    IsStatus /\ Live /\ Answered /\ last.reply.status_code = 404 /\ Failed("ValueError")

\* C10: in live mode on a successful response, get_status maps the status text
\* case-insensitively through the documented table, any other text to UNKNOWN;
\* the status is always one of the seven values.
C10_StatusMapping ==
    (/\ IsStatus /\ Live /\ Answered /\ last.reply.status_code < 400
     /\ last.reply.content.doc = "messageheader"
     /\ last.reply.content.laststatusat.valid) =>
        /\ ReturnedStatus
        /\ last.result.value.status \in 0..6
        /\ StatusNames[last.result.value.status + 1]
               = DocumentedName(last.reply.content.status)

C10_Witness ==
    /\ IsStatus /\ Live /\ ReturnedStatus
    /\ last.reply.content.status =
         <<"F","a","i","l","e","d"," ","A","u","t","h","o","r","i","s","a","t","i","o","n">>
    /\ last.result.value.status = FAILED

====
